---- MODULE Spec2Model ----
(***************************************************************************)
(* autoInx: the admin-configuration layer (getAdminConfig,                 *)
(* updateAdminConfig, toggleChatWidget, getPublicConfig, checkMaintenance  *)
(* and their variants) over the singleton Firestore document admin/config, *)
(* and the CIDR matcher ipInSubnet.                                        *)
(*                                                                         *)
(* JSON scalars are modelled by their JSON text ("true", "false", "1",     *)
(* "'bar'"), objects by functions whose DOMAIN is the set of keys present, *)
(* "HH:MM" strings by sequences of characters (digits 0..9, Colon),        *)
(* addresses and whitelist entries read by the matcher by sequences of     *)
(* one-character strings.                                                  *)
(***************************************************************************)
EXTENDS Integers, Sequences, FiniteSets, TLC

\* ------------------------------------------------------------------ bounds
\* number of store writes after which no further write is started
MaxClock == 2
\* number of invocations that may be suspended between two store calls
MaxPending == 1

\* ------------------------------------------------------------ JSON values
JTrue == "true"
JFalse == "false"
JOne == "1"
JBar == "'bar'"

\* JS ToBoolean on a JSON scalar
Truthy(v) == v \notin {"false", "0", "null", "''"}

\* !!v
Coerce(v) == IF Truthy(v) THEN JTrue ELSE JFalse

EmptyObj == [k \in {} |-> JFalse]

\* the object obj with the keys of patch overwritten (Object.assign / a
\* shallow field-wise overwrite)
Assign(obj, patch) ==
    [k \in DOMAIN obj \cup DOMAIN patch |->
        IF k \in DOMAIN patch THEN patch[k] ELSE obj[k]]

\* ------------------------------------------------------------ time of day
Colon == 10

\* "HH:MM"
HHMM(h, m) == <<h \div 10, h % 10, Colon, m \div 10, m % 10>>

\* s.replace(':', ''): removes the first ':' of s
RECURSIVE ReplaceColon(_)
ReplaceColon(s) ==
    IF s = <<>> THEN <<>>
    ELSE IF Head(s) = Colon THEN Tail(s)
    ELSE <<Head(s)>> \o ReplaceColon(Tail(s))

\* JS string comparison a < b (lexicographic by code unit)
RECURSIVE StrLess(_, _)
StrLess(a, b) ==
    IF b = <<>> THEN FALSE
    ELSE IF a = <<>> THEN TRUE
    ELSE IF Head(a) # Head(b) THEN Head(a) < Head(b)
    ELSE StrLess(Tail(a), Tail(b))

\* JS string comparison a >= b
StrGeq(a, b) == ~StrLess(a, b)

\* Bogota civil time is UTC-5 all year
BogotaOffset == 5

\* instants as Bogota civil time (day 0 = Sunday)
Wed0800 == [day |-> 3, hour |-> 8, minute |-> 0]

Wed0900 == [day |-> 3, hour |-> 9, minute |-> 0]

Wed2000 == [day |-> 3, hour |-> 20, minute |-> 0]

Wed2100 == [day |-> 3, hour |-> 21, minute |-> 0]

Sat0900 == [day |-> 6, hour |-> 9, minute |-> 0]

NoInstant == [day |-> 0, hour |-> 0, minute |-> 0]

\* new Date().getUTCHours()
getUTCHours(now) == (now.hour + BogotaOffset) % 24

\* ------------------------------------------------------- identity provider
NoHeader == "none"

\* event.headers.authorization
AuthHeaders == {NoHeader, "Basic x", "Bearer bad", "Bearer user", "Bearer admin"}

\* authHeader.startsWith('Bearer ')
StartsWithBearer(a) == a \in {"Bearer bad", "Bearer user", "Bearer admin"}

\* authHeader.split('Bearer ')[1]
IdTokenOf(a) ==
    CASE a = "Bearer bad" -> "bad"
      [] a = "Bearer user" -> "user"
      [] a = "Bearer admin" -> "admin"
      [] OTHER -> "undefined"

\* admin.auth().verifyIdToken(idToken): throws on an invalid or expired
\* token, else the decoded claims.  The token "user" carries the custom
\* claim admin: "true" (a string), the token "admin" carries admin: true.
verifyIdToken(t) ==
    CASE t = "admin" -> [ok |-> TRUE, admin |-> JTrue, email |-> "admin@x"]
      [] t = "user" -> [ok |-> TRUE, admin |-> "'true'", email |-> "user@x"]
      [] OTHER -> [ok |-> FALSE, admin |-> "undefined", email |-> "undefined"]

\* the security check of the admin-only handlers: 0 when it passes, else
\* the status it returns
SecurityCheck(a) ==
    IF a = NoHeader \/ ~StartsWithBearer(a) THEN 401
    ELSE IF ~verifyIdToken(IdTokenOf(a)).ok THEN 401
    ELSE IF verifyIdToken(IdTokenOf(a)).admin # JTrue THEN 403
    ELSE 0

\* ------------------------------------------------------------ config store
Fields == {"maintenanceMode", "chatWidgetEnabled", "ipWhitelist",
           "chatSchedule", "lastUpdated", "lastUpdateAction", "foo"}

NoDoc == [exists |-> FALSE, data |-> EmptyObj]

StrList(items) == [isArray |-> TRUE, items |-> items]

\* the JSON number 42 as an element of a whitelist array
NumItem == "#42"

\* typeof ip === 'string'
IsString(x) == x # NumItem

DefaultWhitelist == StrList(<<"127.0.0.1">>)

\* getAdminConfig: initialConfig, with serverTimestamp() resolved to ts
InitialConfig(ts) ==
    [ipWhitelist |-> DefaultWhitelist,
     maintenanceMode |-> JFalse,
     chatWidgetEnabled |-> JTrue,
     lastUpdated |-> ts]

\* Firestore set(data): the document becomes exactly data
SetDoc(doc, data) == [exists |-> TRUE, data |-> data]

\* Firestore merge of a field: maps are merged key by key, anything else
\* is replaced
MergeField(k, old, new) ==
    IF k = "chatSchedule" THEN Assign(old, new) ELSE new

\* Firestore set(data, {merge: true}): creates the document if absent,
\* else overwrites the fields of data and keeps the others
SetMerge(doc, data) ==
    [exists |-> TRUE,
     data |-> [k \in DOMAIN doc.data \cup DOMAIN data |->
                 IF k \notin DOMAIN data THEN doc.data[k]
                 ELSE IF k \in DOMAIN doc.data
                      THEN MergeField(k, doc.data[k], data[k])
                      ELSE data[k]]]

\* Firestore update(data) on an existing document: overwrites the top-level
\* fields of data (the caller handles NOT_FOUND on an absent document)
UpdateDoc(doc, data) == [exists |-> TRUE, data |-> Assign(doc.data, data)]

VARIABLES
    cfg,        \* the document admin/config: [exists, data]
    clock,      \* the store's server timestamp: number of writes so far
    writer,     \* per field, the timestamp of the write that last set it
    pending,    \* invocations suspended between two store calls
    last        \* the invocation that returned last: request and response

vars == <<cfg, clock, writer, pending, last>>


\* --------------------------------------------------------------- requests
\* "HH:MM" schedules an administrator saves: weekends (7 = Sunday in the
\* 1..7 numbering) 08:00-20:00, and one that lacks disableTime and activeDays
WeekendSchedule ==
    [enableTime |-> HHMM(8, 0), disableTime |-> HHMM(20, 0),
     activeDays |-> <<6, 7>>]

IncompleteSchedule == [enableTime |-> HHMM(8, 0)]

\* the objects JSON.parse(event.body) yields
Patches ==
    { EmptyObj,
      [foo |-> JBar],
      [maintenanceMode |-> JTrue],
      [chatWidgetEnabled |-> JFalse],
      [ipWhitelist |-> StrList(<<"10.0.0.0/24", NumItem>>)],
      [ipWhitelist |-> [isArray |-> FALSE, items |-> <<"10.0.0.5">>]],
      [chatSchedule |-> WeekendSchedule],
      [maintenanceMode |-> JOne, foo |-> JBar] }

Object(p) == [kind |-> "object", obj |-> p]

\* event.body: text that is not JSON, or a JSON object
Malformed == [kind |-> "malformed", obj |-> EmptyObj]

Bodies == {Malformed} \cup {Object(p) : p \in Patches}

NoBody == [kind |-> "none", obj |-> EmptyObj]

Request(h, method, auth, mode, body, now) ==
    [h |-> h, method |-> method, auth |-> auth, mode |-> mode,
     body |-> body, now |-> now]

\* a handler's result: a response object, or an exception that leaves the
\* handler (status 0, kind "exception")
Response(status, kind, data) == [status |-> status, kind |-> kind, data |-> data]

Error(status) == Response(status, "error", EmptyObj)

Exception == Response(0, "exception", EmptyObj)

\* the record of a finished invocation; writes counts its store writes
Finished(req, resp, writes) ==
    [h |-> req.h, method |-> req.method, auth |-> req.auth, mode |-> req.mode,
     body |-> req.body, now |-> req.now,
     status |-> resp.status, kind |-> resp.kind, data |-> resp.data,
     writes |-> writes]

NoRequest == Request("none", "GET", NoHeader, "none", NoBody, NoInstant)

\* ------------------------------------------------- suspended invocations
Slots == 1..MaxPending

NoAction == [text |-> "", on |-> "", by |-> "", at |-> NoInstant]

Idle == [req |-> NoRequest, pc |-> "idle",
         chatWidgetEnabled |-> JFalse, action |-> NoAction]

Suspended(req, pc, enabled, action) ==
    [req |-> req, pc |-> pc, chatWidgetEnabled |-> enabled, action |-> action]

\* the lowest free slot, 0 if none
FreeSlot ==
    IF \E i \in Slots : pending[i].pc = "idle"
    THEN CHOOSE i \in Slots :
            /\ pending[i].pc = "idle"
            /\ \A j \in Slots : pending[j].pc = "idle" => i <= j
    ELSE 0

\* the write of data at server time ts recorded per field: a replace sets
\* (or removes) every field, a merge or update sets the fields of data
Stamp(replace, data, ts) ==
    [f \in Fields |-> IF replace \/ f \in DOMAIN data THEN ts ELSE writer[f]]

\* the deployment starts from the documents in docs, nothing in flight
InitFrom(docs) ==
    /\ cfg \in docs
    /\ clock = 0
    /\ writer = [f \in Fields |-> 0]
    /\ pending = [i \in Slots |-> Idle]
    /\ last = Finished(NoRequest, Response(0, "none", EmptyObj), 0)

\* the handler returns without touching the store
Return(req, resp) ==
    /\ last' = Finished(req, resp, 0)
    /\ UNCHANGED <<cfg, clock, writer, pending>>

\* the handler suspends on its second store call
Suspend(req, pc, enabled, action) ==
    /\ FreeSlot # 0
    /\ pending' = [pending EXCEPT ![FreeSlot] = Suspended(req, pc, enabled, action)]
    /\ UNCHANGED <<cfg, clock, writer, last>>


\* ------------------------------------------------------------ getAdminConfig
\* JSON.stringify of FieldValue.serverTimestamp(): the sentinel, not a time
TimestampSentinel == 0 - 1

\* configData with chatWidgetEnabled defaulted to true when undefined
WithChatDefault(data) ==
    IF "chatWidgetEnabled" \in DOMAIN data THEN data
    ELSE Assign(data, [chatWidgetEnabled |-> JTrue])

\* the read that also stores the defaulted chatWidgetEnabled
FetchConfigWriteBack(req, failed) ==
    IF failed THEN Return(req, Error(500))
    ELSE IF ~cfg.exists THEN Suspend(req, "set", JTrue, NoAction)
    ELSE IF "chatWidgetEnabled" \in DOMAIN cfg.data
    THEN Return(req, Response(200, "config", cfg.data))
    ELSE /\ clock < MaxClock
         /\ cfg' = SetMerge(cfg, [chatWidgetEnabled |-> JTrue])
         /\ clock' = clock + 1
         /\ writer' = Stamp(FALSE, [chatWidgetEnabled |-> JTrue], clock + 1)
         /\ last' = Finished(req, Response(200, "config",
                                           WithChatDefault(cfg.data)), 1)
         /\ UNCHANGED pending

\* the try block of getAdminConfig up to and excluding configRef.set: the
\* document is read; failed says the store call threw
FetchConfig(req, failed) ==
    IF failed THEN Return(req, Error(500))
    ELSE IF ~cfg.exists THEN Suspend(req, "set", JTrue, NoAction)
    ELSE Return(req, Response(200, "config", WithChatDefault(cfg.data)))

\* admin-only variant: the security check, then the read
GetAdminConfig(auth, failed) ==
    LET req == Request("getAdminConfig", "GET", auth, "none", NoBody, NoInstant)
    IN  IF SecurityCheck(auth) # 0
        THEN Return(req, Error(SecurityCheck(auth)))
        ELSE FetchConfig(req, failed)

\* variants without a security check
GetAdminConfigPublic(auth, failed) ==
    FetchConfig(Request("getAdminConfigPublic", "GET", auth, "none", NoBody,
                        NoInstant), failed)

\* configRef.set(initialConfig) without merge, then the 200 response
InitializeConfig(i, failed) ==
    /\ pending[i].pc = "set"
    /\ pending' = [pending EXCEPT ![i] = Idle]
    /\ IF failed
       THEN /\ last' = Finished(pending[i].req, Error(500), 0)
            /\ UNCHANGED <<cfg, clock, writer>>
       ELSE /\ clock < MaxClock
            /\ cfg' = SetDoc(cfg, InitialConfig(clock + 1))
            /\ clock' = clock + 1
            /\ writer' = Stamp(TRUE, InitialConfig(clock + 1), clock + 1)
            /\ last' = Finished(pending[i].req,
                                Response(200, "config",
                                         InitialConfig(TimestampSentinel)), 1)

\* --------------------------------------------------------- updateAdminConfig
\* a store write by a handler that then returns: the new document, the
\* fields written, and the response
Write(req, doc, replace, data, resp) ==
    /\ clock < MaxClock
    /\ cfg' = doc
    /\ clock' = clock + 1
    /\ writer' = Stamp(replace, data, clock + 1)
    /\ last' = Finished(req, resp, 1)
    /\ UNCHANGED pending

Message == Response(200, "message", EmptyObj)

\* the update with set() called without {merge: true}
UpdateAdminConfigReplace(method, auth, body, failed) ==
    LET req == Request("updateAdminConfig", method, auth, "none", body, NoInstant)
        updates == Assign(body.obj, [lastUpdated |-> clock + 1])
    IN  IF method # "POST" THEN Return(req, Error(405))
        ELSE IF body.kind = "malformed" THEN Return(req, Error(500))
        ELSE IF DOMAIN body.obj = {} THEN Return(req, Error(400))
        ELSE IF failed THEN Return(req, Error(500))
        ELSE Write(req, SetDoc(cfg, updates), TRUE, updates, Message)

\* variant without a security check: every key of the body is written
UpdateAdminConfig(method, auth, body, failed) ==
    LET req == Request("updateAdminConfig", method, auth, "none", body, NoInstant)
        updates == Assign(body.obj, [lastUpdated |-> clock + 1])
    IN  IF method # "POST" THEN Return(req, Error(405))
        ELSE IF body.kind = "malformed" THEN Return(req, Error(500))
        ELSE IF DOMAIN body.obj = {}
             THEN Return(req, Error(400))
        ELSE IF failed THEN Return(req, Error(500))
        ELSE Write(req, SetMerge(cfg, updates), FALSE, updates, Message)

\* allowedUpdates of the admin-only variant
AllowedUpdates(updates) ==
    LET keys == {k \in DOMAIN updates :
                    \/ k \in {"maintenanceMode", "chatWidgetEnabled"}
                    \/ k = "ipWhitelist" /\ updates[k].isArray}
    IN  [k \in keys |->
            IF k = "ipWhitelist"
            THEN StrList(SelectSeq(updates[k].items, IsString))
            ELSE Coerce(updates[k])]

\* admin-only variant: security check, then the filtered merge
UpdateAdminConfigAdminOnly(method, auth, body, failed) ==
    LET req == Request("updateAdminConfigAdminOnly", method, auth, "none",
                       body, NoInstant)
        allowed == AllowedUpdates(body.obj)
        stamped == Assign(allowed, [lastUpdated |-> clock + 1])
    IN  IF method # "POST" THEN Return(req, Error(405))
        ELSE IF SecurityCheck(auth) # 0
             THEN Return(req, Error(SecurityCheck(auth)))
        ELSE IF body.kind = "malformed" THEN Return(req, Error(500))
        ELSE IF DOMAIN body.obj = {}
             THEN Return(req, Error(400))
        ELSE IF DOMAIN allowed = {} THEN Return(req, Error(400))
        ELSE IF failed THEN Return(req, Error(500))
        ELSE Write(req, SetMerge(cfg, stamped), FALSE, stamped, Message)


\* ---------------------------------------------------------- toggleChatWidget
Action(text, on, by, at) == [text |-> text, on |-> on, by |-> by, at |-> at]

OnOff(enabled) == IF enabled = JTrue THEN "ON" ELSE "OFF"

\* update() without the audit note
ToggleDataNoAction(enabled, action, ts) ==
    [chatWidgetEnabled |-> enabled, lastUpdated |-> ts]

\* the object the toggle job passes to update()
ToggleData(enabled, action, ts) ==
    [chatWidgetEnabled |-> enabled, lastUpdated |-> ts, lastUpdateAction |-> action]

Success == Response(200, "success", EmptyObj)

Text == Response(200, "text", EmptyObj)

\* CONFIG_DOC_REF.update(...) as the handler's only store call; update()
\* rejects with NOT_FOUND when the document does not exist; onError is what
\* the handler does with a rejection
UpdateChatWidget(req, enabled, action, failed, onError) ==
    IF failed \/ ~cfg.exists THEN Return(req, onError)
    ELSE Write(req, UpdateDoc(cfg, ToggleData(enabled, action, clock + 1)),
               FALSE, ToggleData(enabled, action, clock + 1), Success)

\* the fixed cron hours: 13h UTC enables, 1h UTC disables, any other hour
\* returns without a write
CronHours(req, failed) ==
    IF getUTCHours(req.now) = 13
    THEN UpdateChatWidget(req, JTrue,
            Action("Enabled Chat Widget (Scheduled ON @ 8 AM UTC-5)", "ON", "", NoInstant),
            failed, Error(500))
    ELSE IF getUTCHours(req.now) = 1
    THEN UpdateChatWidget(req, JFalse,
            Action("Disabled Chat Widget (Scheduled OFF @ 8 PM UTC-5)", "OFF", "", NoInstant),
            failed, Error(500))
    ELSE Return(req, Text)

\* the manual override of toggleChatWidget.js and of the dynamic-schedule
\* variant: after the security check passes, the template literal reads
\* decodedToken outside the try block that declares it: a ReferenceError
\* leaves the handler before any store call
ManualOverride(req) ==
    IF req.auth = NoHeader \/ ~StartsWithBearer(req.auth) THEN Return(req, Error(401))
    ELSE IF ~verifyIdToken(IdTokenOf(req.auth)).ok THEN Return(req, Error(401))
    ELSE IF verifyIdToken(IdTokenOf(req.auth)).admin # JTrue THEN Return(req, Error(403))
    ELSE Return(req, Exception)

\* toggleChatWidget.js: checked manual override, fixed cron hours
ToggleChatWidget(auth, mode, now, failed) ==
    LET req == Request("toggleChatWidget", "POST", auth, mode, NoBody, now)
    IN  IF mode # "none" THEN ManualOverride(req) ELSE CronHours(req, failed)

\* variant whose manual override has no security check
ToggleChatWidgetNoAuth(auth, mode, now, failed) ==
    LET req == Request("toggleChatWidgetNoAuth", "POST", auth, mode, NoBody, now)
    IN  IF mode = "on"
        THEN UpdateChatWidget(req, JTrue,
                Action("Enabled Chat Widget (MANUAL OVERRIDE)", "ON", "", NoInstant),
                failed, Error(500))
        ELSE IF mode = "off"
        THEN UpdateChatWidget(req, JFalse,
                Action("Disabled Chat Widget (MANUAL OVERRIDE)", "OFF", "", NoInstant),
                failed, Error(500))
        ELSE CronHours(req, failed)

\* built-in schedule: 08:00-20:00, Monday to Friday
DefaultSchedule ==
    [enableTime |-> HHMM(8, 0), disableTime |-> HHMM(20, 0),
     activeDays |-> <<1, 2, 3, 4, 5>>]

\* config.chatSchedule || fallback
ScheduleOr(data, fallback) ==
    IF "chatSchedule" \in DOMAIN data THEN data["chatSchedule"] ELSE fallback

\* !s.enableTime || !s.disableTime || !s.activeDays || s.activeDays.length === 0
Incomplete(s) ==
    \/ "enableTime" \notin DOMAIN s
    \/ "disableTime" \notin DOMAIN s
    \/ "activeDays" \notin DOMAIN s
    \/ Len(s["activeDays"]) = 0

\* the scheduled run with a date formatter that accepts its options and
\* a complete schedule whose window holds: the run goes on to enable
DynamicScheduleEnabling(req, failed) ==
    LET config == IF cfg.exists THEN cfg.data ELSE EmptyObj
    IN  IF failed THEN Return(req, Error(500))
        ELSE IF "chatWidgetEnabled" \in DOMAIN config
                /\ config["chatWidgetEnabled"] = JFalse
             THEN Return(req, Text)
        ELSE IF Incomplete(ScheduleOr(config, DefaultSchedule))
             THEN Suspend(req, "update", JFalse,
                    Action("Disabled Chat Widget (Missing Schedule)", "OFF", "", NoInstant))
        ELSE Suspend(req, "update", JTrue,
                    Action("Enabled Chat Widget (Scheduled ON)", "ON", "", NoInstant))

\* dynamic-schedule variant, scheduled run up to the update: a stored
\* chatWidgetEnabled of false skips the run; an incomplete schedule
\* disables; on a complete schedule toLocaleDateString is called with
\* weekday: 'numeric', which Intl rejects with a RangeError outside any try
DynamicSchedule(req, failed) ==
    LET config == IF cfg.exists THEN cfg.data ELSE EmptyObj
    IN  IF failed THEN Return(req, Error(500))
        ELSE IF "chatWidgetEnabled" \in DOMAIN config
                /\ config["chatWidgetEnabled"] = JFalse
             THEN Return(req, Text)
        ELSE IF Incomplete(ScheduleOr(config, DefaultSchedule))
             THEN Suspend(req, "update", JFalse,
                    Action("Disabled Chat Widget (Missing Schedule)", "OFF", "", NoInstant))
        ELSE Return(req, Exception)

ToggleChatWidgetDynamic(auth, mode, now, failed) ==
    LET req == Request("toggleChatWidgetDynamic", "POST", auth, mode, NoBody, now)
    IN  IF mode # "none" THEN ManualOverride(req) ELSE DynamicSchedule(req, failed)


\* Intl '2-digit' rendering of an hour or a minute
TwoDigit(n) == <<n \div 10, n % 10>>

\* parseInt(d) === 7 ? 0 : parseInt(d), for the numbers 0..7
FoldSunday(d) == IF d = 7 THEN 0 ELSE d

\* array.includes(x)
Includes(array, x) == \E n \in 1..Len(array) : array[n] = x

\* array.map(FoldSunday)
MapFoldSunday(array) == [n \in 1..Len(array) |-> FoldSunday(array[n])]

\* Bogota variant, the decision of a scheduled run: isDayActive &&
\* currentTimeStr >= enableTimeStr && currentTimeStr < disableTimeStr
ScheduledOn(schedule, now) ==
    LET currentTimeStr == TwoDigit(now.hour) \o TwoDigit(now.minute)
        enableTimeStr == ReplaceColon(schedule["enableTime"])
        disableTimeStr == ReplaceColon(schedule["disableTime"])
        activeDayValues == MapFoldSunday(schedule["activeDays"])
    IN  /\ Includes(activeDayValues, now.day)
        /\ StrGeq(currentTimeStr, enableTimeStr)
        /\ StrLess(currentTimeStr, disableTimeStr)

\* Bogota variant, scheduled run up to the update: the store read and the
\* schedule's fields are used outside any try, so a failed read and a
\* missing enableTime, disableTime or activeDays leave the handler as an
\* exception
BogotaSchedule(req, failed) ==
    LET config == IF cfg.exists THEN cfg.data ELSE EmptyObj
        schedule == ScheduleOr(config, DefaultSchedule)
        enabled == IF ScheduledOn(schedule, req.now) THEN JTrue ELSE JFalse
    IN  IF failed THEN Return(req, Exception)
        ELSE IF {"enableTime", "disableTime", "activeDays"} \ DOMAIN schedule # {}
             THEN Return(req, Exception)
        ELSE Suspend(req, "update", enabled,
                     Action("Scheduled", OnOff(enabled), "", req.now))

\* Bogota variant: manual override checked inside one try whose catch
\* answers 403, scheduled run by the stored schedule; update() outside try
ToggleChatWidgetBogota(auth, mode, now, failed) ==
    LET req == Request("toggleChatWidgetBogota", "POST", auth, mode, NoBody, now)
        enabled == IF mode = "on" THEN JTrue ELSE JFalse
    IN  IF mode # "none"
        THEN IF auth = NoHeader \/ ~StartsWithBearer(auth)
             THEN Return(req, Error(401))
             ELSE IF ~verifyIdToken(IdTokenOf(auth)).ok
                     \/ verifyIdToken(IdTokenOf(auth)).admin # JTrue
             THEN Return(req, Error(403))
             ELSE UpdateChatWidget(req, enabled,
                    Action("Manual", OnOff(enabled),
                           verifyIdToken(IdTokenOf(auth)).email, NoInstant),
                    failed, Exception)
        ELSE BogotaSchedule(req, failed)

\* the update() that ends a suspended scheduled run: inside a try in the
\* dynamic-schedule variant (500), outside any try in the Bogota variant
FinishUpdate(i, failed) ==
    LET p == pending[i]
        data == ToggleData(p.chatWidgetEnabled, p.action, clock + 1)
        onError == IF p.req.h = "toggleChatWidgetDynamic"
                   THEN Error(500) ELSE Exception
    IN  /\ p.pc = "update"
        /\ pending' = [pending EXCEPT ![i] = Idle]
        /\ IF failed \/ ~cfg.exists
           THEN /\ last' = Finished(p.req, onError, 0)
                /\ UNCHANGED <<cfg, clock, writer>>
           ELSE /\ clock < MaxClock
                /\ cfg' = UpdateDoc(cfg, data)
                /\ clock' = clock + 1
                /\ writer' = Stamp(FALSE, data, clock + 1)
                /\ last' = Finished(p.req, Success, 1)

\* ------------------------------------------------------------ specification
\* the requests sent to the update endpoint: every body with an
\* administrator's token, every credential with a body that would change
\* the record, an unknown field without a token, and one request that is
\* not a POST
UpdateRequests ==
    { <<"POST", "Bearer admin", b>> : b \in Bodies }
    \cup { <<"POST", a, Object([maintenanceMode |-> JTrue])>> : a \in AuthHeaders }
    \cup { <<"POST", NoHeader, Object([foo |-> JBar])>> }
    \cup { <<"GET", "Bearer admin", Object([maintenanceMode |-> JTrue])>> }

\* whether the store call of the request r can fail: the failure is
\* answered the same for every body that reaches the store, and is
\* exercised on one of them
StoreFailures(r) ==
    IF r = <<"POST", "Bearer admin", Object([maintenanceMode |-> JTrue])>>
    THEN BOOLEAN ELSE {FALSE}

\* a fresh deployment: no document
Init == InitFrom({NoDoc})

\* the admin-config endpoints
Next ==
    \/ \E a \in AuthHeaders, f \in BOOLEAN : GetAdminConfig(a, f)
    \/ \E a \in {NoHeader, "Bearer admin"}, f \in BOOLEAN : GetAdminConfigPublic(a, f)
    \/ \E i \in Slots, f \in BOOLEAN : InitializeConfig(i, f)
    \/ \E r \in UpdateRequests : \E f \in StoreFailures(r) :
            UpdateAdminConfig(r[1], r[2], r[3], f)
    \/ \E r \in UpdateRequests : \E f \in StoreFailures(r) :
            UpdateAdminConfigAdminOnly(r[1], r[2], r[3], f)

Spec == Init /\ [][Next]_vars

\* a deployment whose document may already have been created by a read
ToggleInit == InitFrom({NoDoc, SetDoc(NoDoc, InitialConfig(0))})

\* the fixed-hour toggle jobs: a manual override with every credential, a
\* scheduled run at 13h UTC, at 1h UTC and at another hour
CronInvocations ==
    { <<a, m, Wed0900>> : a \in AuthHeaders, m \in {"on", "off"} }
    \cup { <<NoHeader, "none", t>> : t \in {Wed0800, Wed0900, Wed2000} }

CronNext ==
    \/ \E inv \in CronInvocations, f \in BOOLEAN :
            ToggleChatWidget(inv[1], inv[2], inv[3], f)
    \/ \E inv \in CronInvocations, f \in BOOLEAN :
            ToggleChatWidgetNoAuth(inv[1], inv[2], inv[3], f)

CronSpec == ToggleInit /\ [][CronNext]_vars

\* the schedule-driven toggle jobs: a manual override (invoked outside the
\* enabled window of every schedule here) to on with every credential and
\* to off by an administrator, scheduled runs on Wednesday 09:00,
\* Saturday 09:00 and Wednesday 21:00
ToggleInvocations ==
    { <<a, "on", Wed2100>> : a \in AuthHeaders }
    \cup { <<"Bearer admin", "off", Wed2100>> }
    \cup { <<NoHeader, "none", t>> : t \in {Wed0900, Sat0900, Wed2100} }

\* the updates an administrator saves while the toggle jobs run
ToggleUpdates ==
    { <<"POST", "Bearer admin", Object(p)>> :
        p \in { [chatWidgetEnabled |-> JFalse],
                [chatSchedule |-> WeekendSchedule],
                [chatSchedule |-> IncompleteSchedule] } }

ToggleNext ==
    \/ \E inv \in ToggleInvocations, f \in BOOLEAN :
            ToggleChatWidgetDynamic(inv[1], inv[2], inv[3], f)
    \/ \E inv \in ToggleInvocations, f \in BOOLEAN :
            ToggleChatWidgetBogota(inv[1], inv[2], inv[3], f)
    \/ \E i \in Slots, f \in BOOLEAN : FinishUpdate(i, f)
    \/ \E r \in ToggleUpdates : UpdateAdminConfig(r[1], r[2], r[3], FALSE)

ToggleSpec == ToggleInit /\ [][ToggleNext]_vars


\* ------------------------------------------------------------------ claims
\* the one credential the identity provider validates with admin === true
IsAdminCredential(auth) == auth = "Bearer admin"

GetHandlers == {"getAdminConfig", "getAdminConfigPublic"}

UpdateHandlers == {"updateAdminConfig", "updateAdminConfigAdminOnly"}

ToggleHandlers == {"toggleChatWidget", "toggleChatWidgetNoAuth",
                   "toggleChatWidgetDynamic", "toggleChatWidgetBogota"}

\* C1: unless the store fails (500), a GET of the admin configuration
\* without a Bearer header is answered 401, with a valid token whose admin
\* claim is not boolean true 403, with an administrator's token 200 and the
\* ConfigRecord; the ConfigRecord is returned to administrators only.
C1_AdminConfigGet ==
    (last.h \in GetHandlers /\ last.status # 500) =>
        /\ last.auth \in {NoHeader, "Basic x"} => last.status = 401
        /\ last.auth = "Bearer user" => last.status = 403
        /\ IsAdminCredential(last.auth) =>
              last.status = 200 /\ last.kind = "config"
        /\ last.kind = "config" => IsAdminCredential(last.auth)

\* C2: a POST to the update endpoint that does not carry an administrator's
\* token is not answered 200 (it is rejected, 401 or 403) and leaves the
\* ConfigRecord unchanged.
C2_UpdateRequiresAdmin ==
    [][ ( /\ last'.h \in UpdateHandlers
          /\ last'.method = "POST"
          /\ ~IsAdminCredential(last'.auth) )
        => /\ last'.status # 200
           /\ cfg' = cfg ]_vars

\* C3: a toggle invocation with a mode parameter and no administrator's
\* token does not write the ConfigRecord.
C3_ManualOverrideRequiresAdmin ==
    [][ ( /\ last'.h \in ToggleHandlers
          /\ last'.mode # "none"
          /\ ~IsAdminCredential(last'.auth) )
        => cfg' = cfg ]_vars

\* C4: a manual override mode=on by an administrator ends with a 200
\* response and chatWidgetEnabled = true stored (a failing store call may
\* answer 500 instead).
C4_ManualOnEnables ==
    ( /\ last.h \in ToggleHandlers
      /\ last.mode = "on"
      /\ IsAdminCredential(last.auth) )
    => \/ /\ last.status = 200
          /\ cfg.exists
          /\ "chatWidgetEnabled" \in DOMAIN cfg.data
          /\ cfg.data["chatWidgetEnabled"] = JTrue
       \/ last.status = 500

\* minutes since midnight of an "HH:MM" string
Minutes(s) == (s[1] * 10 + s[2]) * 60 + s[4] * 10 + s[5]

\* today is in activeDays (7 read as Sunday) and enableTime <= now < disableTime
InWindow(schedule, now) ==
    /\ \E n \in 1..Len(schedule["activeDays"]) :
            schedule["activeDays"][n] % 7 = now.day
    /\ Minutes(schedule["enableTime"]) <= now.hour * 60 + now.minute
    /\ now.hour * 60 + now.minute < Minutes(schedule["disableTime"])

\* C5: after a scheduled invocation (no mode parameter) that answered 200
\* on an existing record, the stored chatWidgetEnabled is true exactly when
\* the invocation's Bogota day and time lie in the schedule's window.
C5_ScheduledFollowsWindow ==
    ( /\ last.h \in ToggleHandlers
      /\ last.mode = "none"
      /\ last.status = 200
      /\ cfg.exists )
    => /\ "chatWidgetEnabled" \in DOMAIN cfg.data
       /\ cfg.data["chatWidgetEnabled"] = JTrue
            <=> InWindow(ScheduleOr(cfg.data, DefaultSchedule), last.now)


Has(data, f) == f \in DOMAIN data

\* the field f is the same, present or absent, in the two objects
Same(f, old, new) ==
    /\ Has(old, f) <=> Has(new, f)
    /\ Has(old, f) => new[f] = old[f]

\* the step is a store write by one of the handlers hs
WriteBy(hs) == clock' = clock + 1 /\ last'.h \in hs

C7_AtomicCreation ==
    [][ WriteBy(GetHandlers) =>
            \A f \in DOMAIN cfg.data \ {"lastUpdated"} : Same(f, cfg.data, cfg'.data)
      ]_vars

AllowList == {"maintenanceMode", "chatWidgetEnabled", "ipWhitelist", "chatSchedule"}

\* C8: an update changes no field outside the allow-list and lastUpdated,
\* and stores every allow-listed field of its patch.
C8_AllowListOnly ==
    [][ WriteBy(UpdateHandlers) =>
            /\ \A f \in Fields \ (AllowList \cup {"lastUpdated"}) :
                  Same(f, cfg.data, cfg'.data)
            /\ \A f \in AllowList \cap DOMAIN last'.body.obj : Has(cfg'.data, f)
      ]_vars

\* C9: an administrator's POST whose patch is empty or has no allow-listed
\* field is answered 400 and leaves the ConfigRecord unchanged.
C9_DisallowedPatchRejected ==
    [][ ( /\ last'.h \in UpdateHandlers
          /\ last'.method = "POST"
          /\ IsAdminCredential(last'.auth)
          /\ last'.body.kind = "object"
          /\ AllowList \cap DOMAIN last'.body.obj = {} )
        => /\ last'.status = 400
           /\ cfg' = cfg ]_vars

\* C10: an update keeps, present or absent, every field that is not in its
\* patch (lastUpdated, which the handler adds to every patch, aside).
C10_UpdateMerges ==
    [][ WriteBy(UpdateHandlers) =>
            \A f \in Fields \ ({"lastUpdated"} \cup DOMAIN last'.body.obj) :
                Same(f, cfg.data, cfg'.data)
      ]_vars

\* {maintenanceMode: true} has been written over the record a read created:
\* chatWidgetEnabled and ipWhitelist are the creation's, chatSchedule absent
C10_Witness ==
    /\ last.h \in UpdateHandlers
    /\ last.writes = 1
    /\ last.body = Object([maintenanceMode |-> JTrue])
    /\ clock = 2
    /\ cfg.data["maintenanceMode"] = JTrue
    /\ writer["chatWidgetEnabled"] = 1
    /\ cfg.data["chatWidgetEnabled"] = JTrue
    /\ cfg.data["ipWhitelist"] = DefaultWhitelist
    /\ ~Has(cfg.data, "chatSchedule")

\* C11: the first read of an absent record stores and returns the defaults
\* maintenanceMode false, chatWidgetEnabled true and an empty ipWhitelist.
C11_FirstReadDefaults ==
    [][ (WriteBy(GetHandlers) /\ ~cfg.exists) =>
            /\ cfg'.data["maintenanceMode"] = JFalse
            /\ cfg'.data["chatWidgetEnabled"] = JTrue
            /\ cfg'.data["ipWhitelist"] = StrList(<<>>)
            /\ last'.data["ipWhitelist"] = StrList(<<>>)
      ]_vars

\* the statuses of the error taxonomy
TaxonomyStatuses == {200, 400, 401, 403, 404, 500}

\* C19: every toggle invocation, manual or scheduled, whatever the store
\* and the identity provider do, ends with a response whose status is one
\* of 200, 400, 401, 403, 404, 500; no exception leaves the handler.
C19_NoExceptionEscapes ==
    last.h \in ToggleHandlers =>
        /\ last.kind # "exception"
        /\ last.status \in TaxonomyStatuses

\* C20: a manual override without a Bearer header is answered 401, with an
\* invalid or expired token 401, and with a valid token that lacks
\* admin === true 403.
C20_AuthStatuses ==
    (last.h \in ToggleHandlers /\ last.mode # "none") =>
        /\ last.auth \in {NoHeader, "Basic x"} => last.status = 401
        /\ last.auth = "Bearer bad" => last.status = 401
        /\ last.auth = "Bearer user" => last.status = 403


\* ================================================================ ipInSubnet
\* JS strings as sequences of one-character strings
DigitChars == <<"0", "1", "2", "3", "4", "5", "6", "7", "8", "9">>

IsDigit(ch) == \E n \in 1..10 : DigitChars[n] = ch

DigitValue(ch) == (CHOOSE n \in 1..10 : DigitChars[n] = ch) - 1

IsSpace(ch) == ch = " "

\* s with its leading whitespace removed
RECURSIVE TrimStart(_)
TrimStart(s) ==
    IF s # <<>> /\ IsSpace(Head(s)) THEN TrimStart(Tail(s)) ELSE s

\* s with its trailing whitespace removed
RECURSIVE TrimEnd(_)
TrimEnd(s) ==
    IF s # <<>> /\ IsSpace(s[Len(s)])
    THEN TrimEnd(SubSeq(s, 1, Len(s) - 1)) ELSE s

\* String.prototype.trim
Trim(s) == TrimEnd(TrimStart(s))

\* s.includes(ch)
IncludesChar(s, ch) == \E n \in 1..Len(s) : s[n] = ch

\* s.split(ch): the pieces between the occurrences of ch (at least one)
RECURSIVE Split(_, _)
Split(s, ch) ==
    IF ~IncludesChar(s, ch) THEN <<s>>
    ELSE LET n == CHOOSE i \in 1..Len(s) :
                    s[i] = ch /\ \A j \in 1..(i - 1) : s[j] # ch
         IN  <<SubSeq(s, 1, n - 1)>> \o Split(SubSeq(s, n + 1, Len(s)), ch)

\* a JS number: NaN, or an integer value
NaN == [nan |-> TRUE, v |-> 0]

Num(v) == [nan |-> FALSE, v |-> v]

\* the value of the longest prefix of s made of decimal digits, after acc
RECURSIVE DigitsValue(_, _)
DigitsValue(s, acc) ==
    IF s = <<>> \/ ~IsDigit(Head(s)) THEN acc
    ELSE DigitsValue(Tail(s), acc * 10 + DigitValue(Head(s)))

\* parseInt(s) without a radix, for strings without a "0x" prefix: leading
\* whitespace is skipped, a sign is read, then decimal digits up to the
\* first other character; NaN when there is no digit
parseInt(s) ==
    LET t == TrimStart(s)
        signed == t # <<>> /\ Head(t) \in {"-", "+"}
        digits == IF signed THEN Tail(t) ELSE t
    IN  IF digits = <<>> \/ ~IsDigit(Head(digits)) THEN NaN
        ELSE IF signed /\ Head(t) = "-" THEN Num(0 - DigitsValue(digits, 0))
        ELSE Num(DigitsValue(digits, 0))

\* ToInt32 of a number whose value lies between -2^31 and 2^31 - 1 (every
\* number the matcher builds from octets up to 255): NaN becomes 0
ToInt32(n) == IF n.nan THEN 0 ELSE n.v

\* x << 8 on the 32-bit integer x: the low 24 bits move up, the result is
\* read as a signed 32-bit integer
Shl8(x) ==
    LET low24 == x % 16777216
    IN  IF low24 >= 8388608 THEN (low24 - 16777216) * 256 ELSE low24 * 256

\* a + b on numbers
Plus(a, b) == IF a.nan \/ b.nan THEN NaN ELSE Num(a.v + b.v)

\* parts.reduce((a, b) => (a << 8) + parseInt(b), 0)
RECURSIVE Reduce(_, _)
Reduce(parts, a) ==
    IF parts = <<>> THEN a
    ELSE Reduce(Tail(parts), Plus(Num(Shl8(ToInt32(a))), parseInt(Head(parts))))

\* a 32-bit pattern as its two 16-bit halves; as an unsigned number it is
\* hi * 65536 + lo
Word(v) == [hi |-> (v \div 65536) % 65536, lo |-> v % 65536]

\* n >>> 0: the unsigned 32-bit number n mod 2^32 (NaN gives 0)
ToUint32(n) == Word(ToInt32(n))

\* the signed 32-bit integer with the bits of w (ToInt32 of an unsigned
\* 32-bit number)
WordToInt32(w) ==
    IF w.hi >= 32768 THEN (w.hi - 65536) * 65536 + w.lo
    ELSE w.hi * 65536 + w.lo

\* bitwise and of two numbers below 2^k
RECURSIVE AndBits(_, _, _)
AndBits(a, b, k) ==
    IF k = 0 THEN 0
    ELSE 2 * AndBits(a \div 2, b \div 2, k - 1) + (a % 2) * (b % 2)

\* u & m for an unsigned 32-bit number u and a signed 32-bit integer m: a
\* signed 32-bit integer
BitAnd(u, m) ==
    WordToInt32([hi |-> AndBits(u.hi, Word(m).hi, 16),
                 lo |-> AndBits(u.lo, Word(m).lo, 16)])

\* ~x on a signed 32-bit integer
BitNot(x) == 0 - x - 1

\* 2^e for e in 0..30
RECURSIVE Pow2(_)
Pow2(e) == IF e = 0 THEN 1 ELSE 2 * Pow2(e - 1)

\* ToInt32(Math.pow(2, e) - 1), the operand of ~ in the mask: NaN for a NaN
\* exponent (0); a value strictly between -1 and 0 for e < 0 (0); 2^e - 1
\* up to e = 31; 2^e - 1 = 2^32 - 1 mod 2^32 for e in 32..53 (-1); the double
\* nearest 2^e - 1 is 2^e for e > 53 (0)
ToInt32Pow2Minus1(e) ==
    IF e.nan THEN 0
    ELSE IF e.v < 0 THEN 0
    ELSE IF e.v <= 30 THEN Pow2(e.v) - 1
    ELSE IF e.v = 31 THEN (Pow2(30) - 1) + Pow2(30)
    ELSE IF e.v <= 53 THEN 0 - 1
    ELSE 0

\* 32 - parseInt(bits)
Minus32(n) == IF n.nan THEN NaN ELSE Num(32 - n.v)

\* the comparison without the mask
CidrMatchNoMask(ip, subnet) ==
    LET range == Split(subnet, "/")[1]
        ipInt == ToUint32(Reduce(Split(ip, "."), Num(0)))
        rangeInt == ToUint32(Reduce(Split(range, "."), Num(0)))
    IN  ipInt = rangeInt

\* the try block of ipInSubnet: the entry holds a '/'
CidrMatch(ip, subnet) ==
    LET range == Split(subnet, "/")[1]
        bits == Split(subnet, "/")[2]
        mask == BitNot(ToInt32Pow2Minus1(Minus32(parseInt(bits))))
        ipInt == ToUint32(Reduce(Split(ip, "."), Num(0)))
        rangeInt == ToUint32(Reduce(Split(range, "."), Num(0)))
    IN  BitAnd(ipInt, mask) = BitAnd(rangeInt, mask)

\* getPublicConfig.js: empty arguments rejected, both sides trimmed
ipInSubnet(ip, subnet) ==
    LET cleanIp == Trim(ip)
        cleanSubnet == Trim(subnet)
    IN  IF subnet = <<>> \/ ip = <<>> THEN FALSE
        ELSE IF ~IncludesChar(cleanSubnet, "/") THEN cleanIp = cleanSubnet
        ELSE CidrMatch(cleanIp, cleanSubnet)

\* variant without the guard and without trimming
ipInSubnetUnguarded(ip, subnet) ==
    IF ~IncludesChar(subnet, "/") THEN ip = subnet
    ELSE CidrMatch(ip, subnet)

\* variant that trims the bare entry only
ipInSubnetTrimEntry(ip, subnet) ==
    IF subnet = <<>> \/ ip = <<>> THEN FALSE
    ELSE IF ~IncludesChar(subnet, "/") THEN ip = Trim(subnet)
    ELSE CidrMatch(ip, subnet)

\* ------------------------------------------------------- matcher arguments
\* the decimal text of a number 0..255
RECURSIVE Decimal(_)
Decimal(n) ==
    IF n < 10 THEN <<DigitChars[n + 1]>>
    ELSE Decimal(n \div 10) \o <<DigitChars[(n % 10) + 1]>>

\* "a.b.c.d"
Dotted(q) ==
    Decimal(q[1]) \o <<".">> \o Decimal(q[2]) \o <<".">> \o
    Decimal(q[3]) \o <<".">> \o Decimal(q[4])

\* "a.b.c.d/p"
Cidr(q, p) == Dotted(q) \o <<"/">> \o Decimal(p)

\* dotted quads: neighbours in and out of 10.0.0.0/24, first octets on both
\* sides of 128, the extremes
Quads ==
    { <<10, 0, 0, 5>>, <<10, 0, 0, 0>>, <<10, 0, 1, 5>>, <<127, 255, 255, 255>>,
      <<128, 0, 0, 1>>, <<200, 1, 2, 3>>, <<255, 255, 255, 255>>, <<0, 0, 0, 0>> }

Prefixes == 0..32

NotAnIp == <<"n", "o", "t", "-", "a", "n", "-", "i", "p">>

Padded == <<" ", "1", "0", ".", "0", ".", "0", ".", "5", " ">>

ThreeOctets == <<"1", "0", ".", "0", ".", "0">>

WordPrefix == <<"1", "0", ".", "0", ".", "0", ".", "0", "/", "a", "b", "c">>

NoPrefix == <<"1", "0", ".", "0", ".", "0", ".", "0", "/">>

Prefix33 == <<"1", "0", ".", "0", ".", "0", ".", "0", "/", "3", "3">>

PrefixMinus1 == <<"1", "0", ".", "0", ".", "0", ".", "0", "/", "-", "1">>

ZeroSlash32 == <<"0", ".", "0", ".", "0", ".", "0", "/", "3", "2">>

LetterOctet == <<"1", "0", ".", "0", ".", "0", ".", "x">>

\* addresses that are not dotted quads: a word, the empty string, three
\* octets, a letter in an octet
MalformedAddresses == {NotAnIp, <<>>, ThreeOctets, LetterOctet}

\* entries that are not a dotted quad or a CIDR range: a word, the empty
\* string, a prefix that is a word, missing, or outside 0..32
MalformedEntries == {NotAnIp, <<>>, WordPrefix, NoPrefix, Prefix33, PrefixMinus1}

\* the arguments of the matcher: every quad against every range and against
\* every bare quad, padded and malformed strings on either side
MatcherArguments ==
    { <<Dotted(a), Cidr(r, p)>> : a \in Quads, r \in Quads, p \in Prefixes }
    \cup { <<Dotted(a), Dotted(b)>> : a \in Quads, b \in Quads }
    \cup { <<ip, Dotted(<<10, 0, 0, 5>>)>> : ip \in {Padded} \cup MalformedAddresses }
    \cup { <<Dotted(<<10, 0, 0, 5>>), Padded>>, <<Padded, Padded>> }
    \cup { <<ip, e>> : ip \in MalformedAddresses,
                       e \in {ZeroSlash32, Cidr(<<0, 0, 0, 0>>, 0),
                              Cidr(<<10, 0, 0, 0>>, 24)} }
    \cup { <<Dotted(a), e>> : a \in {<<10, 0, 0, 0>>, <<10, 0, 0, 5>>},
                              e \in MalformedEntries }

MatcherHandlers == {"ipInSubnet", "ipInSubnetUnguarded", "ipInSubnetTrimEntry"}

\* one call of the matcher and its result; the matcher keeps no state, so
\* a behaviour holds one call
Matched(h, ip, subnet, result) ==
    /\ last.h = "none"
    /\ last' = [h |-> h, ip |-> ip, subnet |-> subnet, result |-> result]
    /\ UNCHANGED <<cfg, clock, writer, pending>>

MatcherNext ==
    \/ \E x \in MatcherArguments :
            Matched("ipInSubnet", x[1], x[2], ipInSubnet(x[1], x[2]))
    \/ \E x \in MatcherArguments :
            Matched("ipInSubnetUnguarded", x[1], x[2], ipInSubnetUnguarded(x[1], x[2]))
    \/ \E x \in MatcherArguments :
            Matched("ipInSubnetTrimEntry", x[1], x[2], ipInSubnetTrimEntry(x[1], x[2]))

MatcherSpec == Init /\ [][MatcherNext]_vars

\* the first p bits of the octets of a and r, read as 32-bit values, agree
TopBitsEqual(a, r, p) ==
    /\ \A k \in 1..(p \div 8) : a[k] = r[k]
    /\ p % 8 # 0 =>
          a[(p \div 8) + 1] \div Pow2(8 - (p % 8))
              = r[(p \div 8) + 1] \div Pow2(8 - (p % 8))

\* C16: for dotted quads a and r and a prefix p in 0..32, the matcher
\* answers true on (a, r/p) exactly when the top p bits of a and r are equal.
C16_PrefixMatch ==
    last.h \in MatcherHandlers =>
        \A a \in Quads :
            last.ip = Dotted(a) =>
                \A r \in Quads, p \in Prefixes :
                    last.subnet = Cidr(r, p) =>
                        (last.result <=> TopBitsEqual(a, r, p))

\* an address whose first octet is above 127 has been matched with itself/32
C16_Witness ==
    /\ last.h = "ipInSubnet"
    /\ last.ip = Dotted(<<200, 1, 2, 3>>)
    /\ last.subnet = Cidr(<<200, 1, 2, 3>>, 32)
    /\ last.result

\* C17: when the address or the entry is not well formed (a word, the empty
\* string, a prefix that is a word, missing or outside 0..32) the matcher
\* answers false, whatever the range is.
C17_MalformedNeverMatches ==
    ( /\ last.h \in MatcherHandlers
      /\ \/ last.ip \in MalformedAddresses
         \/ last.subnet \in MalformedEntries )
    => ~last.result

\* C18: on an entry without '/', the matcher answers true exactly when the
\* address and the entry are equal after trimming both.
C18_BareEntryTrimmedEquality ==
    ( /\ last.h \in MatcherHandlers
      /\ ~IncludesChar(last.subnet, "/")
      /\ Trim(last.ip) # <<>> )
    => (last.result <=> Trim(last.ip) = Trim(last.subnet))


\* ============================================================ getPublicConfig
\* the text of a whitelist entry; String(42) for the number
Chars(item) ==
    CASE item = "127.0.0.1" -> Dotted(<<127, 0, 0, 1>>)
      [] item = "10.0.0.5" -> Dotted(<<10, 0, 0, 5>>)
      [] item = "10.0.0.0/24" -> Cidr(<<10, 0, 0, 0>>, 24)
      [] item = NumItem -> <<"4", "2">>

\* a || b on strings
Or(a, b) == IF a # <<>> THEN a ELSE b

HeaderNames == {"client-ip", "x-forwarded-for", "x-nf-client-connection-ip"}

\* event.headers; an absent header is the empty string
Headers(clientIp, forwardedFor, connectionIp) ==
    [k \in HeaderNames |->
        CASE k = "client-ip" -> clientIp
          [] k = "x-forwarded-for" -> forwardedFor
          [] k = "x-nf-client-connection-ip" -> connectionIp]

\* "10.0.0.5, 200.1.2.3"
ForwardedChain ==
    Dotted(<<10, 0, 0, 5>>) \o <<",", " ">> \o Dotted(<<200, 1, 2, 3>>)

\* the callers: address in client-ip; two headers that disagree; a
\* forwarded chain only; no address header
HeaderSets ==
    { Headers(Dotted(<<10, 0, 0, 5>>), <<>>, <<>>),
      Headers(Dotted(<<200, 1, 2, 3>>), <<>>, Dotted(<<10, 0, 0, 5>>)),
      Headers(<<>>, ForwardedChain, <<>>),
      Headers(<<>>, <<>>, <<>>) }

\* what getHardcodedWhitelist extracts from the front-end file, [] when
\* the file cannot be read
StaticWhitelists == { <<>>, <<"10.0.0.5">> }

\* x-nf-client-connection-ip || client-ip || ""
ClientIpConnectionFirst(headers) ==
    Or(headers["x-nf-client-connection-ip"], Or(headers["client-ip"], <<>>))

\* client-ip || first of x-forwarded-for, trimmed || x-nf-client-connection-ip || ""
ClientIp(headers) ==
    Or(headers["client-ip"],
       Or(Trim(Split(headers["x-forwarded-for"], ",")[1]),
          Or(headers["x-nf-client-connection-ip"], <<>>)))

\* the record of a cold start, kept across invocations
ConfigDataCold(doc) == EmptyObj

\* configDoc.exists ? configDoc.data() : {}
ConfigData(doc) == IF doc.exists THEN doc.data ELSE EmptyObj

\* Array.isArray(configData.ipWhitelist) ? configData.ipWhitelist : []
Whitelist(configData) ==
    IF "ipWhitelist" \in DOMAIN configData /\ configData["ipWhitelist"].isArray
    THEN configData["ipWhitelist"].items
    ELSE <<>>

JBool(b) == IF b THEN JTrue ELSE JFalse

\* the body with the stored whitelist added
PublicBodyWithWhitelist(configData, isWhitelisted, clientIp) ==
    [maintenanceMode |->
        JBool("maintenanceMode" \in DOMAIN configData
              /\ configData["maintenanceMode"] = JTrue),
     chatWidgetEnabled |->
        JBool(~("chatWidgetEnabled" \in DOMAIN configData
                /\ configData["chatWidgetEnabled"] = JFalse)),
     isRequesterAdmin |-> JBool(isWhitelisted),
     clientIp |-> clientIp,
     ipWhitelist |-> Whitelist(configData)]

\* the body of the public configuration
PublicBody(configData, isWhitelisted, clientIp) ==
    [maintenanceMode |->
        JBool("maintenanceMode" \in DOMAIN configData
              /\ configData["maintenanceMode"] = JTrue),
     chatWidgetEnabled |->
        JBool(~("chatWidgetEnabled" \in DOMAIN configData
                /\ configData["chatWidgetEnabled"] = JFalse)),
     isRequesterAdmin |-> JBool(isWhitelisted),
     clientIp |-> clientIp]

\* list.includes(clientIp): strict equality with an entry
IncludesIp(list, clientIp) ==
    \E n \in 1..Len(list) : IsString(list[n]) /\ Chars(list[n]) = clientIp

\* list.some(range => ipInSubnet(clientIp, range)), guarded matcher
SomeInSubnet(list, clientIp) ==
    \E n \in 1..Len(list) : ipInSubnet(clientIp, Chars(list[n]))

\* list.some(range => ipInSubnet(clientIp, range)), unguarded matcher:
\* "true", "false", or "throw" when subnet.includes is called on an entry
\* that is not a string before any entry matched
RECURSIVE SomeInSubnetUnguarded(_, _)
SomeInSubnetUnguarded(list, clientIp) ==
    IF list = <<>> THEN "false"
    ELSE IF ~IsString(Head(list)) THEN "throw"
    ELSE IF ipInSubnetUnguarded(clientIp, Chars(Head(list))) THEN "true"
    ELSE SomeInSubnetUnguarded(Tail(list), clientIp)

\* variant with the static list and includes(): its response
PublicConfigStatic(doc, headers, static, failed) ==
    LET clientIp == ClientIpConnectionFirst(headers)
        configData == ConfigData(doc)
        isWhitelisted == \/ IncludesIp(Whitelist(configData), clientIp)
                         \/ IncludesIp(static, clientIp)
    IN  IF failed THEN Error(500)
        ELSE Response(200, "public", PublicBody(configData, isWhitelisted, clientIp))

\* variant with the stored list and the guarded matcher: its response
PublicConfig(doc, headers, static, failed) ==
    LET clientIp == ClientIp(headers)
        configData == ConfigData(doc)
        isWhitelisted == SomeInSubnet(Whitelist(configData), clientIp)
    IN  IF failed THEN Error(500)
        ELSE Response(200, "public", PublicBody(configData, isWhitelisted, clientIp))

\* variant with both lists and the unguarded matcher: its response
PublicConfigUnguarded(doc, headers, static, failed) ==
    LET clientIp == ClientIpConnectionFirst(headers)
        configData == ConfigData(doc)
        dynamic == SomeInSubnetUnguarded(Whitelist(configData), clientIp)
        isWhitelisted == \/ dynamic = "true"
                         \/ SomeInSubnetUnguarded(static, clientIp) = "true"
    IN  IF failed \/ dynamic = "throw" THEN Error(500)
        ELSE Response(200, "public", PublicBody(configData, isWhitelisted, clientIp))

\* the response of the variant h
PublicResponse(h, doc, headers, static, failed) ==
    CASE h = "getPublicConfigStatic" -> PublicConfigStatic(doc, headers, static, failed)
      [] h = "getPublicConfig" -> PublicConfig(doc, headers, static, failed)
      [] h = "getPublicConfigUnguarded" ->
            PublicConfigUnguarded(doc, headers, static, failed)

\* what the environment gave the invocation: address headers, the static
\* list, and whether the store read threw
Call(headers, static, failed) ==
    [headers |-> headers, static |-> static, failed |-> failed]

\* a public handler returns without a store write
PublicReturn(req, resp, call) ==
    /\ last' = Finished(req, resp, 0) @@ call
    /\ UNCHANGED <<cfg, clock, writer, pending>>

PublicConfigHandlers ==
    {"getPublicConfigStatic", "getPublicConfig", "getPublicConfigUnguarded"}

\* one invocation of a variant of the public configuration endpoint
GetPublicConfig(h, headers, static, failed) ==
    PublicReturn(Request(h, "GET", NoHeader, "none", NoBody, NoInstant),
                 PublicResponse(h, cfg, headers, static, failed),
                 Call(headers, static, failed))

\* getIpWhitelist: the static list of the deployment, to any caller
GetIpWhitelist(static) ==
    PublicReturn(Request("getIpWhitelist", "GET", NoHeader, "none", NoBody, NoInstant),
                 Response(200, "ipWhitelist", [ipWhitelist |-> StrList(static)]),
                 Call(Headers(<<>>, <<>>, <<>>), static, FALSE))

\* { maintenanceMode: value }
Maintenance(value) == Response(200, "maintenance", [maintenanceMode |-> value])

\* checkMaintenance: fetches getAdminConfig without an authorization
\* header and answers 200 with maintenanceMode false on every failure.
\* secured: the admin-only variant answers (401); otherwise the variant
\* without a security check answers, creating the record when absent (its
\* read and set taken together here)
CheckMaintenance(secured, failed) ==
    LET req == Request("checkMaintenance", "GET", NoHeader, "none", NoBody, NoInstant)
        call == Call(Headers(<<>>, <<>>, <<>>), <<>>, failed)
    IN  IF secured \/ failed THEN PublicReturn(req, Maintenance(JFalse), call)
        ELSE IF ~cfg.exists
        THEN /\ clock < MaxClock
             /\ cfg' = SetDoc(cfg, InitialConfig(clock + 1))
             /\ clock' = clock + 1
             /\ writer' = Stamp(TRUE, InitialConfig(clock + 1), clock + 1)
             /\ last' = Finished(req, Maintenance(JFalse), 1) @@ call
             /\ UNCHANGED pending
        ELSE PublicReturn(req,
                Maintenance(IF "maintenanceMode" \in DOMAIN cfg.data
                               /\ Truthy(cfg.data["maintenanceMode"])
                            THEN cfg.data["maintenanceMode"] ELSE JFalse),
                call)

\* the whitelists and the flag an administrator saves
PublicUpdates ==
    { <<"POST", "Bearer admin", Object(p)>> :
        p \in { [maintenanceMode |-> JTrue],
                [ipWhitelist |-> StrList(<<>>)],
                [ipWhitelist |-> StrList(<<"10.0.0.5">>)],
                [ipWhitelist |-> StrList(<<"10.0.0.0/24", NumItem>>)] } }

\* the public endpoints, next to the administrator's reads and updates and
\* an administrator's manual disable of the chat widget
PublicNext ==
    \/ \E h \in PublicConfigHandlers, hs \in HeaderSets, st \in StaticWhitelists,
          f \in BOOLEAN : GetPublicConfig(h, hs, st, f)
    \/ \E st \in StaticWhitelists : GetIpWhitelist(st)
    \/ \E s \in BOOLEAN, f \in BOOLEAN : CheckMaintenance(s, f)
    \/ \E f \in BOOLEAN : GetAdminConfig("Bearer admin", f)
    \/ \E i \in Slots, f \in BOOLEAN : InitializeConfig(i, f)
    \/ \E r \in PublicUpdates : UpdateAdminConfig(r[1], r[2], r[3], FALSE)
    \/ ToggleChatWidgetBogota("Bearer admin", "off", Wed2100, FALSE)

PublicSpec == Init /\ [][PublicNext]_vars

\* the endpoints that read the ConfigRecord on a GET
ReadHandlers == GetHandlers \cup PublicConfigHandlers \cup {"checkMaintenance"}

\* C12: a GET that finds the ConfigRecord in the store returns without a
\* store write and leaves the record as it is; when the record lacks
\* chatWidgetEnabled the response carries chatWidgetEnabled = true.
C12_ReadsDoNotWrite ==
    [][ ( /\ last'.h \in ReadHandlers
          /\ cfg.exists
          /\ pending' = pending )
        => /\ cfg' = cfg
           /\ clock' = clock
           /\ last'.writes = 0
           /\ ( /\ last'.h \in GetHandlers \cup PublicConfigHandlers
                /\ last'.status = 200
                /\ ~Has(cfg.data, "chatWidgetEnabled") )
              => last'.data["chatWidgetEnabled"] = JTrue
      ]_vars

\* an administrator's GET answered chatWidgetEnabled = true from a record
\* that does not hold the field
C12_Witness ==
    /\ last.h = "getAdminConfig"
    /\ last.status = 200
    /\ last.writes = 0
    /\ cfg.exists
    /\ ~Has(cfg.data, "chatWidgetEnabled")
    /\ last.data["chatWidgetEnabled"] = JTrue

PublicFields == {"maintenanceMode", "chatWidgetEnabled", "isRequesterAdmin", "clientIp"}

\* the stored values of ipWhitelist two records are compared on
AltWhitelists ==
    { StrList(<<>>), StrList(<<"10.0.0.5">>), StrList(<<"10.0.0.0/24">>),
      StrList(<<"10.0.0.0/24", NumItem>>), DefaultWhitelist,
      [isArray |-> FALSE, items |-> <<"10.0.0.5">>] }

\* the record doc with w stored as its ipWhitelist
WithWhitelist(doc, w) ==
    [exists |-> TRUE, data |-> Assign(ConfigData(doc), [ipWhitelist |-> w])]

\* C13: a 200 response of the public configuration endpoint holds exactly
\* maintenanceMode, chatWidgetEnabled, isRequesterAdmin and clientIp, and
\* the same request on a record that differs in its ipWhitelist only, and
\* gives the same isRequesterAdmin, is answered identically.
C13_NoWhitelistExposure ==
    (last.h \in PublicConfigHandlers /\ last.status = 200) =>
        /\ DOMAIN last.data = PublicFields
        /\ \A w \in AltWhitelists :
              LET alt == PublicResponse(last.h, WithWhitelist(cfg, w),
                                        last.headers, last.static, FALSE)
              IN  ( /\ alt.status = 200
                    /\ alt.data["isRequesterAdmin"] = last.data["isRequesterAdmin"] )
                  => alt.data = last.data

\* a caller inside a stored range has been answered isRequesterAdmin = true
C13_Witness ==
    /\ last.h = "getPublicConfig"
    /\ last.status = 200
    /\ last.data["isRequesterAdmin"] = JTrue
    /\ Whitelist(ConfigData(cfg)) = <<"10.0.0.0/24", NumItem>>

\* C14: isRequesterAdmin is true exactly when the extracted address matches
\* an entry of the stored ipWhitelist under the CIDR matcher; no other
\* list is consulted, and an empty or absent stored whitelist gives false.
C14_AdminIffStoredMatch ==
    (last.h \in PublicConfigHandlers /\ last.status = 200) =>
        ( last.data["isRequesterAdmin"] = JTrue
          <=> \E n \in 1..Len(Whitelist(ConfigData(cfg))) :
                 ipInSubnet(last.data["clientIp"],
                            Chars(Whitelist(ConfigData(cfg))[n])) )

\* the public endpoints that report flags of the ConfigRecord
PublicEndpoints == PublicConfigHandlers \cup {"checkMaintenance"}

\* C15: a public endpoint whose store read failed answers 500; it answers
\* the default maintenanceMode = false with 200 only when the record does
\* not say otherwise.
C15_DefaultsOnlyWhenAbsent ==
    last.h \in PublicEndpoints =>
        /\ last.failed => last.status = 500
        /\ ( /\ last.status = 200
             /\ cfg.exists
             /\ Has(cfg.data, "maintenanceMode")
             /\ cfg.data["maintenanceMode"] = JTrue )
           => last.data["maintenanceMode"] = JTrue

\* C21: a scheduled toggle invocation whose store calls succeed answers 200
\* after exactly one store write, and that write sets chatWidgetEnabled and
\* lastUpdateAction together, at any hour and for any stored flag.
C21_SingleConcludingWrite ==
    (last.h \in ToggleHandlers /\ last.mode = "none" /\ last.status = 200) =>
        /\ last.writes = 1
        /\ writer["chatWidgetEnabled"] = clock
        /\ writer["lastUpdateAction"] = clock

\* the store holds a chatSchedule that lacks one of its three fields
StoredIncomplete(doc) ==
    /\ doc.exists
    /\ Has(doc.data, "chatSchedule")
    /\ Incomplete(doc.data["chatSchedule"])

\* C22: a scheduled run that finds an incomplete chatSchedule does not
\* crash: the handler returns a response, and when it answers 200 the
\* store holds chatWidgetEnabled = false with a lastUpdateAction that says
\* the schedule is missing.
C22_IncompleteScheduleDisables ==
    [][ ( /\ last' # last
          /\ last'.h \in {"toggleChatWidgetDynamic", "toggleChatWidgetBogota"}
          /\ last'.mode = "none"
          /\ StoredIncomplete(cfg)
          /\ \A i \in Slots : pending'[i] = pending[i] )
        => /\ last'.kind # "exception"
           /\ last'.status = 200 =>
                 /\ cfg'.data["chatWidgetEnabled"] = JFalse
                 /\ Has(cfg'.data, "lastUpdateAction")
                 /\ cfg'.data["lastUpdateAction"].text
                       = "Disabled Chat Widget (Missing Schedule)"
      ]_vars

\* C23: an administrator's POST whose body is not JSON is answered 400 and
\* leaves the record as it is.
C23_MalformedBodyRejected ==
    [][ ( /\ last' # last
          /\ last'.h \in UpdateHandlers
          /\ last'.method = "POST"
          /\ IsAdminCredential(last'.auth)
          /\ last'.body = Malformed )
        => /\ last'.status = 400
           /\ cfg' = cfg
      ]_vars

\* C24: every successful write of the update endpoint also sets
\* lastUpdateAction, naming the administrator's e-mail.
C24_UpdateRecordsAction ==
    [][ ( /\ WriteBy(UpdateHandlers)
          /\ IsAdminCredential(last'.auth)
          /\ last'.status = 200 ) =>
            /\ writer'["lastUpdateAction"] = clock'
            /\ Has(cfg'.data, "lastUpdateAction")
            /\ cfg'.data["lastUpdateAction"].by
                  = verifyIdToken(IdTokenOf(last'.auth)).email
      ]_vars

\* the address the documented order extracts: client-ip, else the first
\* entry of x-forwarded-for without its surrounding blanks, else
\* x-nf-client-connection-ip, else empty
FirstPresent(headers) ==
    IF headers["client-ip"] # <<>> THEN headers["client-ip"]
    ELSE IF Trim(Split(headers["x-forwarded-for"], ",")[1]) # <<>>
         THEN Trim(Split(headers["x-forwarded-for"], ",")[1])
    ELSE headers["x-nf-client-connection-ip"]

\* C25: the public configuration endpoint reports as clientIp the address
\* taken from client-ip, then the first entry of x-forwarded-for, then
\* x-nf-client-connection-ip; it is empty only when all three are absent.
C25_AddressOrder ==
    (last.h \in PublicConfigHandlers /\ last.status = 200) =>
        /\ last.data["clientIp"] = FirstPresent(last.headers)
        /\ last.data["clientIp"] = <<>> =>
              \A k \in HeaderNames : last.headers[k] = <<>>

\* C26: a 200 response of the public configuration endpoint reports the
\* maintenanceMode and chatWidgetEnabled of the record as the latest
\* completed update or toggle write left it (maintenanceMode === true,
\* chatWidgetEnabled !== false); nothing is kept from an earlier invocation.
C26_ReadsLatestWrite ==
    (last.h \in PublicConfigHandlers /\ last.status = 200) =>
        /\ last.data["maintenanceMode"]
              = JBool(/\ cfg.exists
                      /\ Has(cfg.data, "maintenanceMode")
                      /\ cfg.data["maintenanceMode"] = JTrue)
        /\ last.data["chatWidgetEnabled"]
              = JBool(~(/\ cfg.exists
                        /\ Has(cfg.data, "chatWidgetEnabled")
                        /\ cfg.data["chatWidgetEnabled"] = JFalse))

\* a read after an update that set maintenanceMode and a toggle that
\* disabled the chat widget reports both
C26_Witness ==
    /\ last.h = "getPublicConfig"
    /\ last.status = 200
    /\ clock = 2
    /\ writer["maintenanceMode"] = 1
    /\ writer["chatWidgetEnabled"] = 2
    /\ last.data["maintenanceMode"] = JTrue
    /\ last.data["chatWidgetEnabled"] = JFalse

\* ------------------------------------- scheduled run against manual disable
\* a deployment whose record exists, with the built-in schedule or with an
\* incomplete chatSchedule saved by an administrator
OverrideInit ==
    InitFrom({ SetDoc(NoDoc, InitialConfig(0)),
               UpdateDoc(SetDoc(NoDoc, InitialConfig(0)),
                         [chatSchedule |-> IncompleteSchedule]) })

\* the dynamic-schedule job, scheduled and manual, interleaved with the
\* disables an administrator can issue: mode=off on the Bogota variant and
\* an update with chatWidgetEnabled = false
OverrideNext ==
    \/ \E t \in {Wed0900, Wed2100}, f \in BOOLEAN :
            ToggleChatWidgetDynamic(NoHeader, "none", t, f)
    \/ \E a \in AuthHeaders : ToggleChatWidgetDynamic(a, "off", Wed0900, FALSE)
    \/ \E i \in Slots, f \in BOOLEAN : FinishUpdate(i, f)
    \/ \E a \in AuthHeaders, f \in BOOLEAN :
            ToggleChatWidgetBogota(a, "off", Wed0900, f)
    \/ UpdateAdminConfig("POST", "Bearer admin",
                         Object([chatWidgetEnabled |-> JFalse]), FALSE)

OverrideSpec == OverrideInit /\ [][OverrideNext]_vars

MaxRequests == 2

MaxChanges == 2

\* Date.now(), the clock counting hours
Now == clock * (60 * 60 * 1000)

\* new Date(Date.now() + 3600 * 1000)
ExpiresAt == Now + 3600 * 1000

\* the token of the e-mailed link, and one that was never stored
Tokens == {"t", "u"}

ResetSlots == 1..MaxRequests

\* the bodies posted to storePasswordToken
StoreBodies ==
    { Malformed,
      Object([email |-> "user@autoinx.com"]),
      Object([email |-> "user@autoinx.com", passwordResetToken |-> "t"]) }

\* the bodies posted to resetPasswordInDb
ResetBodies ==
    { Malformed, Object([token |-> "t"]) }
    \cup { Object([token |-> t, newPassword |-> p]) :
              t \in Tokens, p \in {"p1", "p2"} }

NoReset == [pc |-> "idle", token |-> "", newPassword |-> "", email |-> ""]

\* the response of a handler of this section
Answer(h, status) == [h |-> h, status |-> status]

ResetInit ==
    /\ cfg = NoDoc
    /\ clock = 0
    /\ writer = [password |-> "p0", changes |-> 0, issued |-> FALSE]
    /\ pending = [i \in ResetSlots |-> NoReset]
    /\ last = Answer("none", 0)

\* storePasswordToken: set() of the token document with its expiry one
\* hour ahead; the token is a fresh random value, stored once
StorePasswordToken(method, body, failed) ==
    /\ ~writer.issued
    /\ IF method # "POST"
       THEN /\ last' = Answer("storePasswordToken", 405)
            /\ UNCHANGED <<cfg, writer>>
       ELSE IF \/ body.kind = "malformed"
               \/ ~Has(body.obj, "email")
               \/ ~Has(body.obj, "passwordResetToken")
       THEN /\ last' = Answer("storePasswordToken", 400)
            /\ UNCHANGED <<cfg, writer>>
       ELSE IF failed
       THEN /\ last' = Answer("storePasswordToken", 500)
            /\ UNCHANGED <<cfg, writer>>
       ELSE /\ cfg' = SetDoc(NoDoc, [email |-> body.obj["email"],
                                     createdAt |-> Now,
                                     expiresAt |-> ExpiresAt])
            /\ writer' = [writer EXCEPT !.issued = TRUE]
            /\ last' = Answer("storePasswordToken", 200)
    /\ UNCHANGED <<clock, pending>>

\* db.collection('passwordResetTokens').doc(token).get()
TokenDoc(token) == IF token = "t" THEN cfg ELSE NoDoc

\* the lowest idle reset slot, 0 if none
FreeResetSlot ==
    IF \E i \in ResetSlots : pending[i].pc = "idle"
    THEN CHOOSE i \in ResetSlots :
            /\ pending[i].pc = "idle"
            /\ \A j \in ResetSlots : pending[j].pc = "idle" => i <= j
    ELSE 0

\* the request suspends on its next call
ResetSuspend(pc, token, newPassword, email) ==
    /\ FreeResetSlot # 0
    /\ pending' = [pending EXCEPT ![FreeResetSlot] =
                      [pc |-> pc, token |-> token,
                       newPassword |-> newPassword, email |-> email]]
    /\ UNCHANGED <<cfg, clock, writer, last>>

ResetReturn(status) ==
    /\ last' = Answer("resetPasswordInDb", status)
    /\ UNCHANGED <<cfg, clock, writer, pending>>

\* resetPasswordInDb up to the call that follows its read of the token
\* document: an absent document is answered 400; an expired one is
\* deleted next; otherwise the password is updated next
ResetPasswordInDb(method, body, failed) ==
    IF method # "POST" THEN ResetReturn(405)
    ELSE IF body.kind = "malformed" THEN ResetReturn(400)
    ELSE IF ~Has(body.obj, "token") \/ ~Has(body.obj, "newPassword")
         THEN ResetReturn(400)
    ELSE IF failed THEN ResetReturn(500)
    ELSE LET token == body.obj["token"]
             tokenDoc == TokenDoc(token)
         IN  IF ~tokenDoc.exists THEN ResetReturn(400)
             ELSE IF tokenDoc.data["expiresAt"] < Now
                  THEN ResetSuspend("cleanup", token, body.obj["newPassword"],
                                    tokenDoc.data["email"])
             ELSE ResetSuspend("updateUser", token, body.obj["newPassword"],
                               tokenDoc.data["email"])

\* getUserByEmail and updateUser take effect: the password changes, the
\* request goes on to delete the token
UpdateUser(i, failed) ==
    /\ pending[i].pc = "updateUser"
    /\ IF failed
       THEN /\ pending' = [pending EXCEPT ![i] = NoReset]
            /\ last' = Answer("resetPasswordInDb", 500)
            /\ UNCHANGED writer
       ELSE /\ writer.changes < MaxChanges
            /\ writer' = [writer EXCEPT !.password = pending[i].newPassword,
                                        !.changes = @ + 1]
            /\ pending' = [pending EXCEPT ![i].pc = "delete"]
            /\ UNCHANGED last
    /\ UNCHANGED <<cfg, clock>>

\* delete() of the token document takes effect and the request returns:
\* 200 after a password change, 400 for an expired token
DeleteToken(i, failed) ==
    /\ pending[i].pc \in {"delete", "cleanup"}
    /\ pending' = [pending EXCEPT ![i] = NoReset]
    /\ IF failed
       THEN /\ last' = Answer("resetPasswordInDb", 500)
            /\ UNCHANGED cfg
       ELSE /\ cfg' = IF pending[i].token = "t" THEN NoDoc ELSE cfg
            /\ last' = Answer("resetPasswordInDb",
                              IF pending[i].pc = "delete" THEN 200 ELSE 400)
    /\ UNCHANGED <<clock, writer>>

\* an hour passes
Tick ==
    /\ clock < MaxClock
    /\ clock' = clock + 1
    /\ UNCHANGED <<cfg, writer, pending, last>>

ResetNext ==
    \/ \E m \in {"GET", "POST"}, b \in StoreBodies, f \in BOOLEAN :
            StorePasswordToken(m, b, f)
    \/ \E m \in {"GET", "POST"}, b \in ResetBodies, f \in BOOLEAN :
            ResetPasswordInDb(m, b, f)
    \/ \E i \in ResetSlots, f \in BOOLEAN : UpdateUser(i, f)
    \/ \E i \in ResetSlots, f \in BOOLEAN : DeleteToken(i, f)
    \/ Tick

ResetSpec == ResetInit /\ [][ResetNext]_vars

\* C28: a stored token authorizes at most one password change, in every
\* interleaving of the requests that present it.
C28_TokenSingleUse == writer.changes <= 1

\* ============================================================== contact form
\* sendContactEmail. In the specification of this section cfg is the
\* module-level rateLimitStore of one process, clock the time of day in
\* half hours, writer the log of the process (requests received and, per
\* address, the instants of the requests that passed the rate check), last
\* the response returned last.
MAX_REQUESTS_PER_HOUR == 5

RATE_LIMIT_WINDOW_MS == 60 * 60 * 1000

MaxContact == 7

\* Date.now(), the clock counting half hours
DateNow == clock * (30 * 60 * 1000)

\* event.headers of a contact request; an absent header is ""
ContactHeader(clientIp, connectionIp) ==
    [k \in {"client-ip", "x-nf-client-connection-ip"} |->
        IF k = "client-ip" THEN clientIp ELSE connectionIp]

ContactHeaders ==
    { ContactHeader("10.0.0.5", ""),
      ContactHeader("", "10.0.0.5"),
      ContactHeader("", "") }

\* client-ip || x-nf-client-connection-ip || 'unknown'
ContactClientIp(headers) ==
    IF headers["client-ip"] # "" THEN headers["client-ip"]
    ELSE IF headers["x-nf-client-connection-ip"] # ""
         THEN headers["x-nf-client-connection-ip"]
    ELSE "unknown"

\* event.body: not JSON; the honeypot field filled in; a required field
\* missing; a complete submission
ContactBodies ==
    { Malformed,
      Object([name |-> "Ana", urlCheck |-> "http://spam"]),
      Object([name |-> "Ana", email |-> "ana@autoinx.com"]),
      Object([name |-> "Ana", email |-> "ana@autoinx.com",
              subjectType |-> "order", message |-> "hola"]) }

\* rateLimitStore[clientIp], [] when the key is absent
Timestamps(store, clientIp) ==
    IF clientIp \in DOMAIN store THEN store[clientIp] ELSE <<>>

\* list.filter(timestamp => timestamp > now - RATE_LIMIT_WINDOW_MS)
Filter(list, now) ==
    SelectSeq(list, LAMBDA timestamp : timestamp > now - RATE_LIMIT_WINDOW_MS)

\* the limit allows one request more than MAX_REQUESTS_PER_HOUR
LimitedAbove(list) == Len(list) > MAX_REQUESTS_PER_HOUR

\* rateLimitStore[clientIp].length >= MAX_REQUESTS_PER_HOUR
Limited(list) == Len(list) >= MAX_REQUESTS_PER_HOUR

\* store[clientIp] = list
Put(store, clientIp, list) ==
    [k \in DOMAIN store \cup {clientIp} |->
        IF k = clientIp THEN list ELSE store[k]]

\* the response to clientIp, after sent e-mails
ContactAnswer(status, clientIp, sent) ==
    [h |-> "sendContactEmail", status |-> status, ip |-> clientIp, sent |-> sent]

RateInit ==
    /\ cfg = EmptyObj
    /\ clock = 0
    /\ writer = [requests |-> 0, passed |-> EmptyObj]
    /\ pending = [i \in Slots |-> Idle]
    /\ last = [h |-> "none", status |-> 0, ip |-> "", sent |-> 0]

\* the log of the process after a request from clientIp: passed tells
\* whether it passed the rate check; instants older than an hour are
\* dropped from the log of the address
Logged(clientIp, passed) ==
    LET recent == SelectSeq(Timestamps(writer.passed, clientIp),
                            LAMBDA ts : DateNow - ts < RATE_LIMIT_WINDOW_MS)
    IN  [requests |-> writer.requests + 1,
         passed |-> Put(writer.passed, clientIp,
                        IF passed THEN Append(recent, DateNow) ELSE recent)]

\* sendContactEmail: the rate check, the record of the request, the
\* honeypot and the validation run before the first await; the e-mails
\* touch no state of the process. sent counts the sendMail calls that
\* succeeded before a call threw (2: none threw)
SendContactEmail(method, headers, body, sent) ==
    LET clientIp == ContactClientIp(headers)
        list == Filter(Timestamps(cfg, clientIp), DateNow)
    IN  /\ writer.requests < MaxContact
        /\ UNCHANGED <<clock, pending>>
        /\ IF method # "POST"
           THEN /\ last' = ContactAnswer(405, clientIp, 0)
                /\ writer' = [writer EXCEPT !.requests = @ + 1]
                /\ UNCHANGED cfg
           ELSE IF Limited(list)
           THEN /\ last' = ContactAnswer(429, clientIp, 0)
                /\ cfg' = Put(cfg, clientIp, list)
                /\ writer' = Logged(clientIp, FALSE)
           ELSE /\ cfg' = Put(cfg, clientIp, Append(list, DateNow))
                /\ writer' = Logged(clientIp, TRUE)
                /\ last' =
                     IF body.kind = "malformed"
                     THEN ContactAnswer(500, clientIp, 0)
                     ELSE IF Has(body.obj, "urlCheck")
                     THEN ContactAnswer(200, clientIp, 0)
                     ELSE IF {"name", "email", "subjectType", "message"}
                                \ DOMAIN body.obj # {}
                     THEN ContactAnswer(400, clientIp, 0)
                     ELSE ContactAnswer(IF sent = 2 THEN 200 ELSE 500,
                                        clientIp, sent)

\* the complete submission
Submission ==
    Object([name |-> "Ana", email |-> "ana@autoinx.com",
            subjectType |-> "order", message |-> "hola"])

\* the requests sent to the contact endpoint: every body from every
\* caller, the complete submission with every outcome of its e-mails, and
\* one request that is not a POST
ContactRequests ==
    { <<"POST", hs, b, 2>> : hs \in ContactHeaders, b \in ContactBodies }
    \cup { <<"POST", hs, Submission, sent>> : hs \in ContactHeaders, sent \in 0..1 }
    \cup { <<"GET", ContactHeader("10.0.0.5", ""), Submission, 2>> }

RateNext ==
    \/ \E r \in ContactRequests : SendContactEmail(r[1], r[2], r[3], r[4])
    \/ Tick

RateSpec == RateInit /\ [][RateNext]_vars

\* the instants of list inside the hour that ends at now
Recent(list, now) ==
    SelectSeq(list, LAMBDA ts : now - ts < RATE_LIMIT_WINDOW_MS)

ContactIps == {"10.0.0.5", "unknown"}

\* C29: per client address at most 5 requests of the preceding hour have
\* passed the rate check; a request that arrives when 5 are recorded is
\* answered 429, sends no e-mail and is not recorded; every other POST is
\* recorded, whatever its body.
C29_RateLimit ==
    [][ /\ \A k \in ContactIps :
              /\ Len(Recent(Timestamps(writer'.passed, k), DateNow')) <= 5
              /\ Recent(Timestamps(cfg', k), DateNow')
                    = Recent(Timestamps(writer'.passed, k), DateNow')
        /\ (writer'.requests = writer.requests + 1 /\ last'.status # 405)
           => LET before == Recent(Timestamps(cfg, last'.ip), DateNow)
              IN  IF Len(before) >= 5
                  THEN /\ last'.status = 429
                       /\ last'.sent = 0
                       /\ Timestamps(cfg', last'.ip) = before
                  ELSE /\ last'.status # 429
                       /\ Timestamps(cfg', last'.ip) = Append(before, DateNow)
      ]_vars

\* the sixth request of an address inside one hour was answered 429, after
\* requests recorded at two different instants
C29_Witness ==
    /\ last.status = 429
    /\ Len(Timestamps(cfg, last.ip)) = 5
    /\ Timestamps(cfg, last.ip)[1] < Timestamps(cfg, last.ip)[5]

\* ======================================================== anonymousUserCron
\* the scheduled cleanup of anonymous users. In the specification of this
\* section cfg is the identity provider (the pages of its user listing and
\* the users deleted so far), pending the local state of the job, writer
\* the log of the job's calls (listUsers calls per page, anonymous users
\* found, deletion errors, whether a call threw), last the response.
MaxPages == 2

MaxUsers == 2

\* a page of the listing: providerData.length of each of its users
UserPages == UNION { [1..n -> {0, 1}] : n \in 0..MaxUsers }

\* the listings of the identity provider: one page or more
Listings == UNION { [1..n -> UserPages] : n \in 1..MaxPages }

\* pageToken undefined
NoToken == 0

\* listUsersResult.pageToken of page k: the next page, undefined on the last
PageToken(listing, k) == IF k < Len(listing) THEN k + 1 ELSE NoToken

\* the page listUsers(BATCH_SIZE, pageToken) returns
PageAt(pageToken) == IF pageToken = NoToken THEN 1 ELSE pageToken

\* users.filter(user => user.providerData.length === 0).map(user => user.uid);
\* the uid of a user is its place in the listing
AnonymousUids(listing, k) ==
    { <<k, i>> : i \in { j \in 1..Len(listing[k]) : listing[k][j] = 0 } }

NoJob == [pc |-> "idle", pageToken |-> NoToken, totalDeleted |-> 0,
          anonymousUids |-> {}, next |-> NoToken]

CleanupInit ==
    /\ cfg \in { [pages |-> l, deleted |-> {}] : l \in Listings }
    /\ clock = 0
    /\ writer = [requested |-> [k \in 1..MaxPages |-> 0],
                 found |-> 0, errors |-> 0, threw |-> FALSE]
    /\ pending = NoJob
    /\ last = [h |-> "none", status |-> 0, totalDeleted |-> 0]

\* the scheduler invokes the job: totalDeleted = 0, pageToken = undefined
AnonymousUserCron ==
    /\ pending.pc = "idle"
    /\ last.h = "none"
    /\ pending' = [NoJob EXCEPT !.pc = "listUsers"]
    /\ UNCHANGED <<cfg, clock, writer, last>>

\* the loop runs once, whatever the page token
WhileNever(pageToken) == FALSE

\* while (pageToken)
While(pageToken) == pageToken # NoToken

\* the end of one pass of the loop: pageToken = listUsersResult.pageToken,
\* then the next pass or the 200 response
EndOfPass(pageToken, totalDeleted) ==
    IF While(pageToken)
    THEN /\ pending' = [NoJob EXCEPT !.pc = "listUsers", !.pageToken = pageToken,
                                     !.totalDeleted = totalDeleted]
         /\ UNCHANGED last
    ELSE /\ pending' = [NoJob EXCEPT !.pc = "done", !.totalDeleted = totalDeleted]
         /\ last' = [h |-> "anonymousUserCron", status |-> 200,
                     totalDeleted |-> totalDeleted]

\* a call threw: the catch answers 500
Caught ==
    /\ pending' = [pending EXCEPT !.pc = "done"]
    /\ last' = [h |-> "anonymousUserCron", status |-> 500, totalDeleted |-> 0]

\* listUsers resolves (or throws) and the anonymous users of the page are
\* selected
ListUsers(failed) ==
    LET k == PageAt(pending.pageToken)
        anonymousUids == AnonymousUids(cfg.pages, k)
    IN  /\ pending.pc = "listUsers"
        /\ UNCHANGED <<cfg, clock>>
        /\ IF failed
           THEN /\ writer' = [writer EXCEPT !.threw = TRUE]
                /\ Caught
           ELSE /\ writer' = [writer EXCEPT !.requested[k] = @ + 1,
                                            !.found = @ + Cardinality(anonymousUids)]
                /\ IF Cardinality(anonymousUids) > 0
                   THEN /\ pending' = [pending EXCEPT
                                          !.pc = "deleteUsers",
                                          !.anonymousUids = anonymousUids,
                                          !.next = PageToken(cfg.pages, k)]
                        /\ UNCHANGED last
                   ELSE EndOfPass(PageToken(cfg.pages, k), pending.totalDeleted)

\* deleteUsers resolves with errors for some of the uids (or throws)
DeleteUsers(errors, failed) ==
    /\ pending.pc = "deleteUsers"
    /\ errors \subseteq pending.anonymousUids
    /\ UNCHANGED clock
    /\ IF failed
       THEN /\ writer' = [writer EXCEPT !.threw = TRUE]
            /\ Caught
            /\ UNCHANGED cfg
       ELSE /\ cfg' = [cfg EXCEPT !.deleted = @ \cup (pending.anonymousUids \ errors)]
            /\ writer' = [writer EXCEPT !.errors = @ + Cardinality(errors)]
            /\ EndOfPass(pending.next,
                         pending.totalDeleted
                            + (Cardinality(pending.anonymousUids) - Cardinality(errors)))

\* a provider call of the job settles
CleanupStep ==
    \/ \E f \in BOOLEAN : ListUsers(f)
    \/ \E e \in SUBSET ((1..MaxPages) \X (1..MaxUsers)), f \in BOOLEAN :
            DeleteUsers(e, f)

CleanupNext ==
    \/ AnonymousUserCron
    \/ CleanupStep

\* every call the job awaits settles
CleanupSpec == CleanupInit /\ [][CleanupNext]_vars /\ WF_vars(CleanupStep)

\* the job has returned, and it did what the listing asks for: 200, every
\* page requested once, only anonymous users deleted, totalDeleted the
\* anonymous users found minus the deletion errors
CleanupDone ==
    /\ last.status = 200
    /\ \A k \in 1..MaxPages :
          writer.requested[k] = IF k <= Len(cfg.pages) THEN 1 ELSE 0
    /\ \A u \in cfg.deleted : cfg.pages[u[1]][u[2]] = 0
    /\ last.totalDeleted = writer.found - writer.errors
    /\ last.totalDeleted = Cardinality(cfg.deleted)

\* C30: once invoked the cleanup job returns; when no identity-provider
\* call threw it returns 200 after requesting every page of the listing
\* exactly once, has deleted only users without providerData, and reports
\* as totalDeleted the anonymous users found minus the deletion errors.
C30_CleanupTerminates ==
    /\ [](( pending.pc = "done" /\ ~writer.threw ) => CleanupDone)
    /\ [](\A k \in 1..MaxPages : writer.requested[k] <= 1)
    /\ (pending.pc # "idle") ~> (pending.pc = "done")

\* a job over two pages returned 200 after a deletion error, leaving a
\* user that has a provider
C30_Witness ==
    /\ pending.pc = "done"
    /\ last.status = 200
    /\ Len(cfg.pages) = 2
    /\ writer.errors > 0
    /\ last.totalDeleted > 0
    /\ \E k \in 1..2 : \E i \in 1..Len(cfg.pages[k]) : cfg.pages[k][i] = 1

====
